---- MODULE Spec2Model ----
(***************************************************************************)
(* Model of the file counter of scripts/filecounter/filecounter.py: the    *)
(* SCAN_LOCK-guarded sweep update_file_count_csvs, the count retrieval     *)
(* retrive_single_count, the scheduler run_regular_update and the          *)
(* on-demand trigger schedule_count; and of transformer.py: perform_process *)
(* with its helpers check_already_merged, merge_las and merge_file_md.     *)
(*                                                                         *)
(* A date string 'YYYY-MM-DD' is the tuple <<y, m, d>>; a datetime is the  *)
(* number of days since 1970-01-01.  A float is the reduced fraction       *)
(* <<numerator, denominator>>.  A data frame and a CSV file are records    *)
(* [cols, rows]; a row is the list of its values in column order.          *)
(***************************************************************************)
EXTENDS Integers, Sequences, FiniteSets, TLC

\* ------------------------------------------------------------------ bounds
\* on-demand requests (schedule_count calls) in one run of the process
MaxOnDemand == 1
\* runs of transformer.py's perform_process over one working folder
MaxRuns == 2
\* names the request of a run lists
MaxFiles == 2
\* merge_file_md calls on one list
MaxMerges == 4
\* calendar days the model's clock and requests range over
NumDays == 2

\* ------------------------------------------------------- dates and floats
\* datetime.datetime.strptime(s, '%Y-%m-%d'): the day number of a date string
strptime(s) ==
    LET y   == IF s[2] <= 2 THEN s[1] - 1 ELSE s[1]
        era == y \div 400
        yoe == y - era * 400
        mp  == IF s[2] > 2 THEN s[2] - 3 ELSE s[2] + 9
        doy == (153 * mp + 2) \div 5 + s[3] - 1
        doe == yoe * 365 + yoe \div 4 - yoe \div 100 + doy
    IN  era * 146097 + doe - 719468

\* datetime.strftime('%Y-%m-%d'): the date string of a day number
strftime(z) ==
    LET n   == z + 719468
        era == n \div 146097
        doe == n - era * 146097
        yoe == (doe - doe \div 1460 + doe \div 36524 - doe \div 146096) \div 365
        doy == doe - (365 * yoe + yoe \div 4 - yoe \div 100)
        mp  == (5 * doy + 2) \div 153
        d   == doy - (153 * mp + 2) \div 5 + 1
        m   == IF mp < 10 THEN mp + 3 ELSE mp - 9
        y   == yoe + era * 400
    IN  <<IF m <= 2 THEN y + 1 ELSE y, m, d>>

\* the first day of the model's calendar window: the spec scenario's 2021-01-01
FirstDate == <<2021, 1, 1>>
Days == strptime(FirstDate) .. (strptime(FirstDate) + NumDays - 1)
DateKeys == {strftime(z) : z \in Days}
\* datetime.datetime.now(): the model's clock stands on the last day of the window
Today == strptime(FirstDate) + NumDays - 1

RECURSIVE GCD(_, _)
GCD(a, b) == IF b = 0 THEN a ELSE GCD(b, a % b)

\* the float a / b (b > 0) as a reduced fraction
Float(a, b) == LET g == GCD(a, b) IN <<a \div g, b \div g>>
FloatZero == <<0, 1>>

\* ---------------------------------------------------------------- registry
\* counts.SENSOR_COUNT_DEFINITIONS: sensor -> metric -> definition
JpgRegex == "^.*\\.jpg$"
PlyRegex == "^.*\\.ply$"
count_defs ==
    [ envlog |->
        [ images |-> [type |-> "timestamp", path |-> "/data/envlog"],
          jpgs   |-> [type |-> "regex", path |-> "/data/envlog",
                      regex |-> JpgRegex, parent |-> "images"] ],
      scanner3D |->
        [ ply |-> [type |-> "regex", path |-> "/data/scanner3D",
                   regex |-> PlyRegex, parent |-> "raw"],
          raw |-> [type |-> "plot", path |-> "/data/scanner3D"] ] ]

\* the orders in which 'for target_count in targets' can go through a sensor's
\* metric dictionary: envlog's as the scenario of the specification lists it,
\* scanner3D's with the parent before or after its child
TargetOrders ==
    {[envlog |-> <<"images", "jpgs">>, scanner3D |-> o] :
        o \in {<<"ply", "raw">>, <<"raw", "ply">>}}

\* count_defs.keys()
SensorKeys == <<"envlog", "scanner3D">>
Sensors == {SensorKeys[i] : i \in 1..Len(SensorKeys)}
Paths == {"/data/envlog", "/data/scanner3D"}

\* ------------------------------------------------------------- file system
\* a directory entry: a file, or a directory with the names of its files
\* a listing is [exists, entries]; Missing is the directory that does not exist
Missing == [exists |-> FALSE, entries |-> <<>>]
Dir(entries) == [exists |-> TRUE, entries |-> entries]
Name(stem, ext) == [stem |-> stem, ext |-> ext]
FileEntry(stem, ext) == [name |-> Name(stem, ext), isdir |-> FALSE, files |-> <<>>]
DirEntry(stem, files) == [name |-> Name(stem, ""), isdir |-> TRUE, files |-> files]

\* a directory of n files of which the first m end in .jpg
FlatDir(n, m) ==
    Dir([i \in 1..n |-> IF i <= m THEN FileEntry(i, "jpg") ELSE FileEntry(i, "txt")])

\* a directory of one timestamp directory that holds two .jpg files and a .txt file
NestedDir == Dir(<<DirEntry(1, <<Name(1, "jpg"), Name(2, "jpg"), Name(3, "txt")>>)>>)

\* re.match(regex, name) for the registry's patterns
re_match(regex, name) ==
    CASE regex = JpgRegex -> name.ext = "jpg"
      [] regex = PlyRegex -> name.ext = "ply"
      [] OTHER -> FALSE

\* ------------------------------------------------------------------- state
VARIABLES
    SCAN_LOCK,        \* the global flag of line 19
    files,            \* csv_path/<sensor>.csv: Absent or the table written last
    fs,               \* the data directories: path -> date string -> listing
    cwd_dirs,         \* names of the directories of the working directory
    START_SCAN_DATE,  \* the environment's override of the scheduler's start date
    target_order,     \* sensor -> the iteration order of its metric dictionary
    pc,               \* each thread's position
    sensor_list,      \* each sweep's arguments and locals, by thread
    dates_to_check,
    conn,
    sensor_i,         \* position of the loop of line 236
    date_i,           \* position of the loop of line 254
    target_i,         \* position of the loop of line 258
    df,
    counts,
    percentages,
    err,              \* the exception that ended the thread, "none" if none
    written,          \* the sensors whose file the thread's current sweep wrote
    processed,        \* sensor -> date string -> how often a sweep that wrote the
                      \* sensor's file had the date in its list: 0, 1 or "2 or more"
    message,          \* the acknowledgement schedule_count returned for each thread
    calls,            \* the retrieve calls of each thread's sweep that returned
    connects,         \* how many connections were made for each thread
    sweeps,           \* how many sweeps each thread started: 0, 1 or "2 or more"
    before,           \* the files as they were when the thread's sweep set SCAN_LOCK
    wrote,            \* the file the thread's sweep wrote for each sensor, if any
    arg,              \* the arguments of a single call of one of the functions
    ret,              \* what that call returned
    tpc,              \* the position of transformer.py's perform_process
    merge_filename,   \* transformer.args.merge_filename
    file_list,        \* perform_process's locals
    file_i,           \* position of the loop of transformer.py line 249
    file_md,
    processed_files,
    las_processed_files,
    merged_las,       \* working folder: the files merged into each <stem>_merged.las
    contents_txt,     \* working folder: the lines of each <stem>_merged_contents.txt
    runs,             \* how many runs of perform_process were started
    md_calls,         \* the entries merged into file_md, as <<path, source>>
    las_calls,        \* the files merge_las was called with, in all runs
    result            \* the dictionary perform_process returned last

shared == <<SCAN_LOCK, files, processed>>
environ == <<fs, cwd_dirs, START_SCAN_DATE, target_order>>
args == <<sensor_list, dates_to_check, conn>>
loops == <<sensor_i, date_i, target_i>>
memo == <<counts, percentages>>
sessions == <<message, connects, sweeps>>
single == <<arg, ret>>
history == <<before, wrote>>
locals == <<file_list, file_i, file_md, processed_files, las_processed_files>>
folder == <<merged_las, contents_txt>>
merging == <<tpc, merge_filename, locals, folder, runs, md_calls, las_calls, result>>
vars == <<SCAN_LOCK, files, fs, cwd_dirs, START_SCAN_DATE, target_order, pc, sensor_list,
          dates_to_check, conn, sensor_i, date_i, target_i, df, counts,
          percentages, err, written, processed, message, calls, connects, sweeps,
          before, wrote, arg, ret, tpc, merge_filename, file_list, file_i, file_md,
          processed_files, las_processed_files, merged_las, contents_txt, runs,
          md_calls, las_calls, result>>
\* the state of the file counter
counter == <<SCAN_LOCK, files, fs, cwd_dirs, START_SCAN_DATE, target_order, pc,
             sensor_list, dates_to_check, conn, sensor_i, date_i, target_i, df, counts,
             percentages, err, written, processed, message, calls, connects, sweeps,
             before, wrote, arg, ret>>


\* thread 0 runs run_regular_update; each other thread is one started by
\* schedule_count
Sched == 0
OnDemand == 1..MaxOnDemand
Threads == {Sched} \cup OnDemand

\* a CSV file is [exists, cols, rows]; Absent is the file that does not exist
Absent == [exists |-> FALSE, cols |-> <<>>, rows |-> <<>>]
\* Python's None where a date string is expected
None == <<>>
NoConnection == [results |-> <<>>]
NoFrame == [cols |-> <<>>, rows |-> <<>>]
Empty == <<>>
\* no acknowledgement, no call, no return value yet
NoMessage == <<>>
NoCall == [fn |-> "none"]
NoReturn == [fn |-> "none"]
\* no file of any sensor
NoFiles == [s \in Sensors |-> Absent]

\* --------------------------------------------------------- count retrieval
\* os.path.exists(date_dir) and os.listdir(date_dir)
Listing(path, date) ==
    IF path \in DOMAIN fs /\ date \in DOMAIN fs[path] THEN fs[path][date] ELSE Missing

Ok(n) == [err |-> "none", count |-> n]
Failed(e) == [err |-> e, count |-> 0]

RECURSIVE CountMatching(_, _)
\* lines 208-210: the files of a timestamp directory that match
CountMatching(regex, names) ==
    IF names = <<>> THEN 0
    ELSE (IF re_match(regex, Head(names)) THEN 1 ELSE 0)
         + CountMatching(regex, Tail(names))

\* line 205, os.path.isdir(date_content): the bare entry name is resolved
\* against the working directory, not against date_dir
isdir(date_content) == date_content \in cwd_dirs

\* the loop of lines 204-214 without the test of line 213
RegexScan_no_test(regex, entries, count) == [err |-> "none", count |-> count + Len(entries)]

RECURSIVE RegexScan(_, _, _)
\* lines 204-214: the loop over the entries of date_dir
RegexScan(regex, entries, count) ==
    IF entries = <<>> THEN Ok(count)
    ELSE LET e == Head(entries) IN
         IF isdir(e.name)
         THEN IF e.isdir
              THEN RegexScan(regex, Tail(entries), count + CountMatching(regex, e.files))
              ELSE Failed("OSError")     \* os.listdir of a plain file
         ELSE RegexScan(regex, Tail(entries),
                        count + (IF re_match(regex, e.name) THEN 1 ELSE 0))

\* lines 219-222: the loop over the cursor's rows
RECURSIVE CursorScan(_, _)
CursorScan(rows, count) ==
    IF rows = <<>> THEN count ELSE CursorScan(Tail(rows), Head(rows)[1])

\* lines 184-224 without the os.path.exists tests of lines 190, 196 and 202:
\* os.listdir of a directory that does not exist raises OSError
retrive_single_count_unchecked(target_count, target_def, date, cn) ==
    IF target_def.type \in {"timestamp", "plot", "regex"}
    THEN LET date_dir == Listing(target_def.path, date) IN
         IF ~date_dir.exists THEN Failed("OSError")
         ELSE IF target_def.type = "regex"
              THEN RegexScan(target_def.regex, date_dir.entries, 0)
              ELSE Ok(Len(date_dir.entries))
    ELSE IF target_def.type = "psql"
         THEN Ok(CursorScan(cn.results[strptime(date) - strptime(FirstDate) + 1], 0))
         ELSE Ok(0)

\* lines 184-224
retrive_single_count(target_count, target_def, date, cn) ==
    LET date_dir == Listing(target_def.path, date) IN
    CASE target_def.type = "timestamp" ->
            IF date_dir.exists THEN Ok(Len(date_dir.entries)) ELSE Ok(0)
      [] target_def.type = "plot" ->
            IF date_dir.exists THEN Ok(Len(date_dir.entries)) ELSE Ok(0)
      [] target_def.type = "regex" ->
            IF date_dir.exists
            THEN RegexScan(target_def.regex, date_dir.entries, 0)
            ELSE Ok(0)
      [] target_def.type = "psql" ->
            Ok(CursorScan(cn.results[strptime(date) - strptime(FirstDate) + 1], 0))
      [] OTHER -> Ok(0)

\* a call of retrive_single_count with the positional arguments a: Python
\* raises TypeError unless the four parameters are all given
call_retrive_single_count(a) ==
    IF Len(a) # 4 THEN Failed("TypeError")
    ELSE retrive_single_count(a[1], a[2], a[3], a[4])

\* the division of lines 264-267 without the conversion to float
percentage_int_division(child, parent) ==
    IF parent > 0 THEN <<child \div parent, 1>> ELSE FloatZero

\* lines 264-267
percentage(child, parent) ==
    IF parent > 0 THEN Float(child, parent) ELSE FloatZero

\* ------------------------------------------------------------- date ranges
\* lines 56-63 with range(0, days_between): the last day is left out
generate_dates_without_end(start_date_string, end_date_string) ==
    LET start_date == strptime(start_date_string)
        end_date == IF end_date_string = None THEN Today
                    ELSE strptime(end_date_string)
        days_between == end_date - start_date
    IN  [i \in 1..days_between |-> strftime(start_date + (i - 1))]

\* lines 56-63 with abs() around the difference of line 56
generate_dates_abs(start_date_string, end_date_string) ==
    LET start_date == strptime(start_date_string)
        end_date == IF end_date_string = None THEN Today
                    ELSE strptime(end_date_string)
        days_between == IF end_date >= start_date THEN end_date - start_date
                        ELSE start_date - end_date
    IN  [i \in 1..(days_between + 1) |-> strftime(start_date + (i - 1))]

\* lines 49-63; end_date_string None stands for datetime.datetime.now()
generate_dates_in_range(start_date_string, end_date_string) ==
    LET start_date == strptime(start_date_string)
        end_date == IF end_date_string = None THEN Today
                    ELSE strptime(end_date_string)
        days_between == end_date - start_date
    IN  [i \in 1..(days_between + 1) |-> strftime(start_date + (i - 1))]

\* ------------------------------------------------------------- data frames
\* target_count + '%'
PctCol(target_count) == target_count \o "%"

RECURSIVE Columns(_, _)
\* lines 245-250: the columns of a new frame
Columns(order, defs) ==
    IF order = <<>> THEN <<>>
    ELSE LET target_count == Head(order) IN
         (IF "parent" \in DOMAIN defs[target_count]
          THEN <<target_count, PctCol(target_count)>>
          ELSE <<target_count>>) \o Columns(Tail(order), defs)

RECURSIVE Values(_, _, _, _)
\* lines 273-277 and 285-292: the values of an entry after its date
Values(order, defs, cnt, pct) ==
    IF order = <<>> THEN <<>>
    ELSE LET target_count == Head(order) IN
         (IF "parent" \in DOMAIN defs[target_count]
          THEN <<cnt[target_count], pct[target_count]>>
          ELSE <<cnt[target_count]>>) \o Values(Tail(order), defs, cnt, pct)

\* line 270: current_date in df['date'].values
HasDate(frame, current_date) ==
    \E i \in 1..Len(frame.rows) : frame.rows[i][1] = current_date

\* line 278 writing the count columns alone: the last column keeps its value
UpdateRow_partial(frame, current_date, updated_entry) ==
    [frame EXCEPT !.rows =
        [i \in 1..Len(frame.rows) |->
            IF frame.rows[i][1] = current_date
            THEN [updated_entry EXCEPT ![Len(updated_entry)] =
                    frame.rows[i][Len(updated_entry)]]
            ELSE frame.rows[i]]]

\* line 278: df.loc[df['date'] == current_date] = updated_entry
UpdateRow(frame, current_date, updated_entry) ==
    [frame EXCEPT !.rows =
        [i \in 1..Len(frame.rows) |->
            IF frame.rows[i][1] = current_date THEN updated_entry ELSE frame.rows[i]]]

\* the position of a column name in a list of names, 0 if it is not there
IndexOf(names, c) ==
    IF \E k \in 1..Len(names) : names[k] = c
    THEN CHOOSE k \in 1..Len(names) : names[k] = c
    ELSE 0

NaN == "NaN"

\* line 293: df.append(pd.Series(new_entry, index=indices), ignore_index=True);
\* the new row takes each column's value from the entry by column name
AppendRow(frame, new_entry, indices) ==
    [frame EXCEPT !.rows =
        Append(@, [j \in 1..Len(frame.cols) |->
                      IF IndexOf(indices, frame.cols[j]) = 0 THEN NaN
                      ELSE new_entry[IndexOf(indices, frame.cols[j])]])]

\* lines 269-293: the row of current_date, replaced or appended
merge_row(frame, order, defs, current_date, cnt, pct) ==
    LET entry == <<current_date>> \o Values(order, defs, cnt, pct)
        indices == <<"date">> \o Columns(order, defs)
    IN  IF HasDate(frame, current_date)
        THEN UpdateRow(frame, current_date, entry)
        ELSE AppendRow(frame, entry, indices)

\* line 296: df['date'] = pd.to_datetime(df['date'], format='%Y-%m-%d'); a
\* datetime in a frame is the one-element tuple of its day number
to_datetime(frame) ==
    [frame EXCEPT !.rows =
        [i \in 1..Len(frame.rows) |-> [frame.rows[i] EXCEPT ![1] = <<strptime(@)>>]]]

RECURSIVE InsertRow(_, _)
InsertRow(sorted, row) ==
    IF sorted = <<>> THEN <<row>>
    ELSE IF row[1][1] < Head(sorted)[1][1]
         THEN <<row>> \o sorted
         ELSE <<Head(sorted)>> \o InsertRow(Tail(sorted), row)

RECURSIVE SortRows(_)
SortRows(rows) ==
    IF rows = <<>> THEN <<>>
    ELSE InsertRow(SortRows(SubSeq(rows, 1, Len(rows) - 1)), rows[Len(rows)])

\* lines 296-298 without the sort of line 297
sort_values_skipped(frame) == frame

\* line 297: df.sort_values(by=['date'], inplace=True, ascending=True)
sort_values(frame) == [frame EXCEPT !.rows = SortRows(@)]

\* line 298: df.to_csv(output_file, index=False); a datetime is written as
\* its date string
to_csv(frame) ==
    [exists |-> TRUE,
     cols |-> frame.cols,
     rows |-> [i \in 1..Len(frame.rows) |-> [frame.rows[i] EXCEPT ![1] = strftime(@[1])]]]

\* line 243: pd.read_csv(output_file)
read_csv(file) == [cols |-> file.cols, rows |-> file.rows]

\* lines 245-251: the frame of a sensor that has no file yet
new_frame(order, defs) == [cols |-> <<"date">> \o Columns(order, defs), rows |-> <<>>]

\* ------------------------------------------------------------------ sweeps
\* the connection psycopg2.connect returns (lines 151 and 168)
Connection == [results |-> [i \in 1..NumDays |-> <<>>]]

\* an uncaught exception ends the thread; nothing of the sweep runs after it
Raise(t, e) ==
    /\ pc' = [pc EXCEPT ![t] = "dead"]
    /\ err' = [err EXCEPT ![t] = e]
    /\ df' = [df EXCEPT ![t] = NoFrame]
    /\ counts' = [counts EXCEPT ![t] = Empty]
    /\ percentages' = [percentages EXCEPT ![t] = Empty]
    /\ date_i' = [date_i EXCEPT ![t] = 0]
    /\ target_i' = [target_i EXCEPT ![t] = 0]
    /\ calls' = [calls EXCEPT ![t] = <<>>]
    /\ UNCHANGED <<shared, environ, args, sensor_i, written, history, sessions, single, merging>>

\* lines 151 and 168 taking a connection made earlier instead of making one
connect_cached(n) == n

\* lines 151 and 168, psycopg2.connect: one more connection was made
connect(n) == n + 1

\* lines 153 and 179: one more sweep was started; the count stops at 2
start_sweep(n) == IF n < 2 THEN n + 1 ELSE n

\* line 155 with the two arguments of the format exchanged
acknowledgement_swapped(sensors, dates_in_range) == <<Len(dates_in_range), Len(sensors)>>

\* line 155: the numbers the acknowledgement names, sensors first
acknowledgement(sensors, dates_in_range) == <<Len(sensors), Len(dates_in_range)>>

\* sensor_name.lower() of line 139
lower(sensor_name) == IF sensor_name = "ALL" THEN "all" ELSE sensor_name

\* lines 138-156: the request handler starts a thread on update_file_count_csvs
schedule_count(t, sensor_name, start_range, end_range) ==
    /\ pc[t] = "idle"
    /\ \A u \in OnDemand : u < t => pc[u] # "idle"
    /\ sensor_list' = [sensor_list EXCEPT ![t] =
            IF lower(sensor_name) = "all" THEN SensorKeys ELSE <<sensor_name>>]
    /\ dates_to_check' = [dates_to_check EXCEPT ![t] =
            generate_dates_in_range(start_range, end_range)]
    /\ conn' = [conn EXCEPT ![t] = Connection]
    /\ connects' = [connects EXCEPT ![t] = connect(@)]
    /\ sweeps' = [sweeps EXCEPT ![t] = start_sweep(@)]
    /\ pc' = [pc EXCEPT ![t] = "wait"]
    /\ message' = [message EXCEPT ![t] =
            acknowledgement(sensor_list'[t], dates_to_check'[t])]
    /\ UNCHANGED <<shared, environ, loops, df, memo, err, written, history, calls, single, merging>>

\* line 153: a thread that returned or raised is gone; the next request's
\* thread takes its place in the model
thread_exit(t) ==
    /\ pc[t] \in {"done", "dead"}
    /\ pc' = [pc EXCEPT ![t] = "idle"]
    /\ sensor_list' = [sensor_list EXCEPT ![t] = <<>>]
    /\ dates_to_check' = [dates_to_check EXCEPT ![t] = <<>>]
    /\ conn' = [conn EXCEPT ![t] = NoConnection]
    /\ sensor_i' = [sensor_i EXCEPT ![t] = 0]
    /\ err' = [err EXCEPT ![t] = "none"]
    /\ written' = [written EXCEPT ![t] = {}]
    /\ message' = [message EXCEPT ![t] = NoMessage]
    /\ connects' = [connects EXCEPT ![t] = 0]
    /\ sweeps' = [sweeps EXCEPT ![t] = 0]
    /\ before' = [before EXCEPT ![t] = NoFiles]
    /\ wrote' = [wrote EXCEPT ![t] = NoFiles]
    /\ UNCHANGED <<shared, environ, date_i, target_i, df, memo, calls, single, merging>>

\* lines 170-179: the scheduler computes its dates and calls the sweep with
\* the connection it made once, before its loop (lines 163-168)
run_regular_update ==
    /\ pc[Sched] = "sched"
    /\ LET dates == generate_dates_in_range(START_SCAN_DATE, None) IN
       IF dates = <<>>
       THEN Raise(Sched, "IndexError")         \* line 177: dates_to_check[-1]
       ELSE /\ sensor_list' = [sensor_list EXCEPT ![Sched] = SensorKeys]
            /\ dates_to_check' = [dates_to_check EXCEPT ![Sched] = dates]
            /\ written' = [written EXCEPT ![Sched] = {}]
            /\ sensor_i' = [sensor_i EXCEPT ![Sched] = 0]
            /\ pc' = [pc EXCEPT ![Sched] = "wait"]
            /\ sweeps' = [sweeps EXCEPT ![Sched] = start_sweep(@)]
            /\ UNCHANGED <<shared, environ, conn, date_i, target_i, df, memo, err,
                           message, connects, calls, history, single, merging>>

\* line 182: time.sleep(3600)
sleep_3600 ==
    /\ pc[Sched] = "sleep3600"
    /\ pc' = [pc EXCEPT ![Sched] = "sched"]
    /\ UNCHANGED <<shared, environ, args, loops, df, memo, err, written, history, sessions,
                   calls, single, merging>>

\* line 230: while SCAN_LOCK
test_lock(t) ==
    /\ pc[t] = "wait"
    /\ pc' = [pc EXCEPT ![t] = IF SCAN_LOCK THEN "sleep60" ELSE "lock"]
    /\ UNCHANGED <<shared, environ, args, loops, df, memo, err, written, history, sessions,
                   calls, single, merging>>

\* line 232: time.sleep(60), then the flag is tested again
sleep_60(t) ==
    /\ pc[t] = "sleep60"
    /\ pc' = [pc EXCEPT ![t] = "wait"]
    /\ UNCHANGED <<shared, environ, args, loops, df, memo, err, written, history, sessions,
                   calls, single, merging>>

\* line 235: SCAN_LOCK = True
set_lock(t) ==
    /\ pc[t] = "lock"
    /\ SCAN_LOCK' = TRUE
    /\ sensor_i' = [sensor_i EXCEPT ![t] = 1]
    /\ pc' = [pc EXCEPT ![t] = "sensor"]
    /\ before' = [before EXCEPT ![t] = files]
    /\ UNCHANGED <<files, processed, environ, args, date_i, target_i, df, memo, err,
                   written, wrote, sessions, calls, single, merging>>

\* the sensor and the date a thread is at
Sensor(t) == sensor_list[t][sensor_i[t]]
Targets(t) == count_defs[Sensor(t)]
Order(t) == target_order[Sensor(t)]
CurrentDate(t) == dates_to_check[t][date_i[t]]

\* lines 254-257 without lines 256-257: the memo of the date before is kept
EnterDate_keep(t, i) ==
    /\ date_i' = [date_i EXCEPT ![t] = i]
    /\ IF i <= Len(dates_to_check[t])
       THEN /\ pc' = [pc EXCEPT ![t] = "target"]
            /\ target_i' = [target_i EXCEPT ![t] = 1]
            /\ UNCHANGED memo
       ELSE /\ pc' = [pc EXCEPT ![t] = "write"]
            /\ UNCHANGED <<target_i, memo>>

\* lines 254-257: the head of the date loop, entered from pc value "sensor"
\* (first date) or "row" (next date)
EnterDate(t, i) ==
    /\ date_i' = [date_i EXCEPT ![t] = i]
    /\ IF i <= Len(dates_to_check[t])
       THEN /\ pc' = [pc EXCEPT ![t] = "target"]
            /\ target_i' = [target_i EXCEPT ![t] = 1]
            /\ counts' = [counts EXCEPT ![t] = Empty]
            /\ percentages' = [percentages EXCEPT ![t] = Empty]
       ELSE /\ pc' = [pc EXCEPT ![t] = "write"]
            /\ UNCHANGED <<target_i, memo>>

\* lines 236-251: the next sensor of the list: its frame is read or created
load_frame(t) ==
    /\ pc[t] = "sensor"
    /\ IF sensor_i[t] > Len(sensor_list[t])
       THEN /\ pc' = [pc EXCEPT ![t] = "unlock"]
            /\ UNCHANGED <<shared, environ, args, loops, df, memo, err, written, history,
                           sessions, calls, single, merging>>
       ELSE IF Sensor(t) \notin DOMAIN count_defs
       THEN Raise(t, "KeyError")                \* line 239
       ELSE IF files[Sensor(t)].exists
       THEN \/ Raise(t, "IOError")              \* line 243 fails
            \/ /\ df' = [df EXCEPT ![t] = read_csv(files[Sensor(t)])]
               /\ EnterDate(t, 1)
               /\ UNCHANGED <<shared, environ, args, sensor_i, err, written, history, sessions,
                              calls, single, merging>>
       ELSE /\ df' = [df EXCEPT ![t] = new_frame(Order(t), Targets(t))]
            /\ EnterDate(t, 1)
            /\ UNCHANGED <<shared, environ, args, sensor_i, err, written, history, sessions,
                           calls, single, merging>>

\* lines 259-267 for one target: its count, its parent's count, its percentage
count_target(t) ==
    /\ pc[t] = "target"
    /\ LET target_count == Order(t)[target_i[t]]
           target_def == Targets(t)[target_count]
           r == call_retrive_single_count(
                    <<target_count, target_def, CurrentDate(t), conn[t]>>)
           counts1 == (target_count :> r.count) @@ counts[t]
           needParent == "parent" \in DOMAIN target_def
                         /\ target_def.parent \notin DOMAIN counts1
           r2 == call_retrive_single_count(
                    <<Targets(t)[target_def.parent], CurrentDate(t), conn[t]>>)
           counts2 == IF needParent
                      THEN (target_def.parent :> r2.count) @@ counts1
                      ELSE counts1
       IN
       \/ Raise(t, "OSError")                   \* os.listdir fails
       \/ /\ r.err # "none"
          /\ Raise(t, r.err)
       \/ /\ r.err = "none"
          /\ needParent
          /\ r2.err # "none"
          /\ Raise(t, r2.err)
       \/ /\ r.err = "none"
          /\ needParent => r2.err = "none"
          /\ counts' = [counts EXCEPT ![t] = counts2]
          /\ percentages' = [percentages EXCEPT ![t] =
                IF "parent" \in DOMAIN target_def
                THEN (target_count :>
                        percentage(counts2[target_count], counts2[target_def.parent]))
                     @@ @
                ELSE @]
          /\ target_i' = [target_i EXCEPT ![t] = @ + 1]
          /\ pc' = [pc EXCEPT ![t] =
                IF target_i[t] + 1 > Len(Order(t)) THEN "row" ELSE "target"]
          /\ calls' = [calls EXCEPT ![t] =
                Append(@, [sensor |-> Sensor(t), date |-> CurrentDate(t),
                           target |-> target_count, count |-> r.count])]
          /\ UNCHANGED <<shared, environ, args, sensor_i, date_i, df, err, written, history,
                         sessions, single, merging>>

\* lines 269-293: the date's row goes into the frame; then the next date
update_row(t) ==
    /\ pc[t] = "row"
    /\ df' = [df EXCEPT ![t] =
            merge_row(@, Order(t), Targets(t), CurrentDate(t),
                      counts[t], percentages[t])]
    /\ IF date_i[t] + 1 <= Len(dates_to_check[t])
       THEN EnterDate(t, date_i[t] + 1)
       ELSE /\ date_i' = [date_i EXCEPT ![t] = @ + 1]
            /\ pc' = [pc EXCEPT ![t] = "write"]
            /\ UNCHANGED <<target_i, memo>>
    /\ UNCHANGED <<shared, environ, args, sensor_i, err, written, history, sessions, calls,
                   single, merging>>

\* lines 295-298: the frame is sorted by date and written over the file
write_frame(t) ==
    /\ pc[t] = "write"
    /\ \/ Raise(t, "IOError")                   \* line 298 fails
       \/ LET sorted == sort_values(to_datetime(df[t])) IN
          /\ df' = [df EXCEPT ![t] = sorted]
          /\ files' = [files EXCEPT ![Sensor(t)] = to_csv(sorted)]
          /\ written' = [written EXCEPT ![t] = @ \cup {Sensor(t)}]
          /\ wrote' = [wrote EXCEPT ![t][Sensor(t)] = to_csv(sorted)]
          /\ processed' = [processed EXCEPT ![Sensor(t)] =
                [d \in DOMAIN @ |->
                    IF (\E k \in 1..Len(dates_to_check[t]) : dates_to_check[t][k] = d)
                       /\ @[d] < 2
                    THEN @[d] + 1 ELSE @[d]]]
          /\ sensor_i' = [sensor_i EXCEPT ![t] = @ + 1]
          /\ pc' = [pc EXCEPT ![t] = "sensor"]
          /\ UNCHANGED <<SCAN_LOCK, environ, args, date_i, target_i, memo, err,
                         sessions, calls, before, single, merging>>

\* the return of the sweep without line 300: the flag stays as it is
release_lock_skipped(t) ==
    /\ pc[t] = "unlock"
    /\ pc' = [pc EXCEPT ![t] = IF t = Sched THEN "sleep3600" ELSE "done"]
    /\ df' = [df EXCEPT ![t] = NoFrame]
    /\ counts' = [counts EXCEPT ![t] = Empty]
    /\ percentages' = [percentages EXCEPT ![t] = Empty]
    /\ date_i' = [date_i EXCEPT ![t] = 0]
    /\ target_i' = [target_i EXCEPT ![t] = 0]
    /\ calls' = [calls EXCEPT ![t] = <<>>]
    /\ before' = [before EXCEPT ![t] = NoFiles]
    /\ wrote' = [wrote EXCEPT ![t] = NoFiles]
    /\ UNCHANGED <<shared, environ, args, sensor_i, err, written, sessions, single, merging>>

\* line 300: SCAN_LOCK = False, and the sweep returns
release_lock(t) ==
    /\ pc[t] = "unlock"
    /\ SCAN_LOCK' = FALSE
    /\ pc' = [pc EXCEPT ![t] = IF t = Sched THEN "sleep3600" ELSE "done"]
    /\ df' = [df EXCEPT ![t] = NoFrame]
    /\ counts' = [counts EXCEPT ![t] = Empty]
    /\ percentages' = [percentages EXCEPT ![t] = Empty]
    /\ date_i' = [date_i EXCEPT ![t] = 0]
    /\ target_i' = [target_i EXCEPT ![t] = 0]
    /\ calls' = [calls EXCEPT ![t] = <<>>]
    /\ before' = [before EXCEPT ![t] = NoFiles]
    /\ wrote' = [wrote EXCEPT ![t] = NoFiles]
    /\ UNCHANGED <<files, processed, environ, args, sensor_i, err, written, sessions,
                   single, merging>>

\* ------------------------------------------------------------ environment
\* the listings a data directory takes in the model
ScenarioDir == FlatDir(10, 4)
Dirs == {Missing, FlatDir(0, 0), FlatDir(1, 1), FlatDir(2, 1), ScenarioDir, NestedDir}

\* files arrive in, or leave, one date's data directory
change_directory(path, date, listing) ==
    /\ fs[path][date] # listing
    /\ fs' = [fs EXCEPT ![path][date] = listing]
    /\ UNCHANGED <<shared, cwd_dirs, START_SCAN_DATE, target_order, pc, args, loops,
                   df, memo, err, written, history, sessions, calls, single, merging>>

\* ========================================================== transformer.py
\* A path is [dir, stem, ext]: dir is "" for a bare file name, ext is "" for
\* a directory.  The names of the model hold no '.las' but as their extension.
Path(dir, stem, ext) == [dir |-> dir, stem |-> stem, ext |-> ext]

\* line 20
ACCEPTABLE_FILE_EXTENSIONS == <<".las">>

\* os.path.basename(path)
basename(path) == [path EXCEPT !.dir = ""]
\* os.path.splitext(name)[0] of a bare name
splitext(name) == name.stem
\* os.path.join(folder, name) for a bare name
join(folder_path, name) == [name EXCEPT !.dir = folder_path]
\* name.endswith(extension)
endswith(name, extension) == name.ext = extension

\* the source files of the model: a.las in the working directory, a.las and
\* b.las and notes.txt in /data, a directory /data/scan that holds c.las, and
\* /data/gone.las, which does not exist
BareA == Path("", "a", ".las")
DataA == Path("/data", "a", ".las")
DataB == Path("/data", "b", ".las")
Notes == Path("/data", "notes", ".txt")
Gone == Path("/data", "gone", ".las")
ScanDir == Path("/data", "scan", "")
SourceNames == {BareA, DataA, DataB, Notes, Gone, ScanDir}

\* os.path.exists, os.path.isdir and os.listdir on the source names; a bare
\* name is looked up in the working directory
exists(name) == name \in {BareA, DataA, DataB, Notes, ScanDir}
is_dir(name) == name = ScanDir
listdir(name) == IF name = ScanDir THEN <<Path("", "c", ".las")>> ELSE <<>>

\* lines 48-50: the name once for every extension it ends with
RECURSIVE MatchExtensions(_, _)
MatchExtensions(one_name, extensions) ==
    IF extensions = <<>> THEN <<>>
    ELSE (IF endswith(one_name, Head(extensions)) THEN <<one_name>> ELSE <<>>)
         \o MatchExtensions(one_name, Tail(extensions))

\* lines 31-52
RECURSIVE get_files_to_process(_, _)
get_files_to_process(source_names, acceptable_extensions) ==
    IF source_names = <<>> THEN <<>>
    ELSE LET one_name == Head(source_names)
             rest == get_files_to_process(Tail(source_names), acceptable_extensions)
         IN  IF ~exists(one_name) THEN rest
             ELSE IF is_dir(one_name)
                  THEN get_files_to_process(listdir(one_name), acceptable_extensions)
                       \o rest
                  ELSE MatchExtensions(one_name, acceptable_extensions) \o rest

\* line 269: the line 'filename + "\n"' of a contents file
Line(filename) == [text |-> filename, newline |-> TRUE]
\* entry.strip() of line 86: the line without its newline
strip(entry) == entry.text

\* lines 73-89: the contents file exists and one of its lines is source_file
check_already_merged(merged_file, source_file) ==
    /\ contents_txt[merged_file] # <<>>
    /\ \E i \in 1..Len(contents_txt[merged_file]) :
          strip(contents_txt[merged_file][i]) = source_file

\* lines 55-70: pdal merge into an existing file, a copy otherwise; the
\* merged file is the list of the files that went into it
merge_las(las_path, merged_path) ==
    IF merged_las[merged_path] # <<>>
    THEN Append(merged_las[merged_path], las_path)
    ELSE <<las_path>>

\* configuration.TRANSFORMER_NAME and configuration.TRANSFORMER_VERSION
TRANSFORMER_NAME == "plotmerge"
TRANSFORMER_VERSION == "1.0"
\* datetime.datetime.utcnow().isoformat(): the clock advances with every entry
utcnow == Len(md_calls)

\* Python values of a metadata dictionary: a list, a dictionary, a scalar
List(v) == [type |-> "list", v |-> v]
Dict(v) == [type |-> "dict", v |-> v]
Scalar(v) == [type |-> "scalar", v |-> v]

\* lines 92-115
prepare_file_md(filepath, source_file, key_value) ==
    [path |-> filepath,
     key |-> key_value,
     metadata |->
        [replace |-> TRUE,
         data |-> [source |-> List(<<source_file>>),
                   transformer |-> Scalar(TRANSFORMER_NAME),
                   version |-> Scalar(TRANSFORMER_VERSION),
                   timestamp |-> Scalar(utcnow)]]]

\* {**one_value, **new_value} of line 160
ShallowMerge(one_value, new_value) ==
    [k \in DOMAIN one_value \cup DOMAIN new_value |->
        IF k \in DOMAIN new_value THEN new_value[k] ELSE one_value[k]]

\* lines 118-171 for recursion_depth 0, the depth line 210 calls it with
merge_file_dict(source_md, merge_md) ==
    IF DOMAIN source_md = {} THEN merge_md
    ELSE [one_key \in DOMAIN source_md \cup DOMAIN merge_md |->
            IF one_key \in DOMAIN source_md /\ one_key \in DOMAIN merge_md
            THEN LET one_value == source_md[one_key]
                     new_value == merge_md[one_key]
                 IN  CASE one_value.type = "list" ->
                            IF new_value.type = "list"
                            THEN List(one_value.v \o new_value.v)
                            ELSE one_value
                       [] one_value.type = "dict" ->
                            IF new_value.type = "dict"
                            THEN Dict(ShallowMerge(one_value.v, new_value.v))
                            ELSE one_value
                       [] OTHER -> new_value
            ELSE IF one_key \in DOMAIN merge_md THEN merge_md[one_key]
                 ELSE source_md[one_key]]

\* lines 189-194: the index of the first entry of the path, 0 for no match
MatchIdx(dest_md, path) ==
    IF \E idx \in 1..Len(dest_md) : dest_md[idx].path = path
    THEN CHOOSE idx \in 1..Len(dest_md) :
            /\ dest_md[idx].path = path
            /\ \A j \in 1..(idx - 1) : dest_md[j].path # path
    ELSE 0

\* lines 174-217 without the match of lines 189-199: the entry is appended
merge_file_md_append(dest_md, new_md) ==
    IF dest_md = <<>> THEN (IF DOMAIN new_md # {} THEN <<new_md>> ELSE <<>>)
    ELSE Append(dest_md, new_md)

\* lines 174-217
merge_file_md(dest_md, new_md) ==
    IF dest_md = <<>> THEN (IF DOMAIN new_md # {} THEN <<new_md>> ELSE <<>>)
    ELSE LET match_idx == MatchIdx(dest_md, new_md.path) IN
         IF match_idx = 0 THEN Append(dest_md, new_md)
         ELSE IF "metadata" \notin DOMAIN new_md \/ "data" \notin DOMAIN new_md.metadata
         THEN dest_md
         ELSE LET working_md == dest_md[match_idx] IN
              IF "metadata" \in DOMAIN working_md
              THEN IF "data" \in DOMAIN working_md.metadata
                   THEN [dest_md EXCEPT ![match_idx].metadata.data =
                            merge_file_dict(@, new_md.metadata.data)]
                   ELSE dest_md
              ELSE [dest_md EXCEPT ![match_idx] =
                      [k \in DOMAIN working_md \cup {"metadata"} |->
                          IF k = "metadata" THEN new_md.metadata ELSE working_md[k]]]

\* transformer.args.merge_filename when the option is not given
NoName == Path("", "", "")
\* transformer.args.merge_filename: not given, or plot.las
MergeFilenames == {NoName, Path("", "plot", ".las")}
\* transformer.args.sensor
SensorArg == "scanner3DTop"
\* check_md['working_folder']
out_path == "/out"

\* lines 257-260
MergedOut(filename, merge_name) ==
    IF merge_name # NoName
    THEN join(out_path, Path("", splitext(basename(merge_name)) \o "_merged", ".las"))
    ELSE join(out_path, Path("", splitext(basename(filename)) \o "_merged", ".las"))
\* line 261: merged_out.replace('.las', '_contents.txt')
MergedTxt(merged_out) == [merged_out EXCEPT !.ext = "_contents.txt"]

\* the merged files and contents files the working folder can hold
OutPaths ==
    {join(out_path, Path("", stem \o "_merged", ".las")) : stem \in {"a", "b", "c", "plot"}}
TxtPaths == {MergedTxt(p) : p \in OutPaths}

\* no run has returned yet
NoResult == [code |-> -1]

InitTransformer ==
    /\ tpc = "idle"
    /\ merge_filename = NoName
    /\ file_list = <<>>
    /\ file_i = 0
    /\ file_md = <<>>
    /\ processed_files = 0
    /\ las_processed_files = 0
    /\ merged_las = [p \in OutPaths |-> <<>>]
    /\ contents_txt = [p \in TxtPaths |-> <<>>]
    /\ runs = 0
    /\ md_calls = <<>>
    /\ las_calls = <<>>
    /\ result = NoResult

\* lines 242-248: a run of perform_process begins on the names the request
\* lists
start_process(list_files, merge_name) ==
    /\ tpc \in {"idle", "returned"}
    /\ runs < MaxRuns
    /\ runs' = runs + 1
    /\ merge_filename' = merge_name
    /\ file_list' = get_files_to_process(list_files, ACCEPTABLE_FILE_EXTENSIONS)
    /\ file_i' = 1
    /\ file_md' = <<>>
    /\ md_calls' = <<>>
    /\ processed_files' = 0
    /\ las_processed_files' = 0
    /\ tpc' = "loop"
    /\ UNCHANGED <<counter, folder, las_calls, result>>

\* lines 249-276: the body of the loop for one file
process_file ==
    /\ tpc = "loop"
    /\ file_i <= Len(file_list)
    /\ LET filepath == file_list[file_i]
           filename == basename(filepath)
           merged_out == MergedOut(filename, merge_filename)
           merged_txt == MergedTxt(merged_out)
           cur_md == prepare_file_md(merged_out, filepath, SensorArg)
       IN  /\ processed_files' = processed_files + 1
           /\ file_i' = file_i + 1
           /\ IF endswith(filename, ".las")
                 /\ ~check_already_merged(merged_txt, filepath)
              THEN /\ merged_las' = [merged_las EXCEPT ![merged_out] =
                                        merge_las(filepath, merged_out)]
                   /\ contents_txt' = [contents_txt EXCEPT ![merged_txt] =
                                          Append(@, Line(filename))]
                   /\ file_md' = merge_file_md(file_md, cur_md)
                   /\ las_processed_files' = las_processed_files + 1
                   /\ md_calls' = Append(md_calls, <<merged_out, filepath>>)
                   /\ las_calls' = Append(las_calls,
                         [file |-> filepath, out |-> merged_out, run |-> runs])
              ELSE UNCHANGED <<file_md, las_processed_files, folder, md_calls, las_calls>>
    /\ UNCHANGED <<counter, tpc, merge_filename, file_list, runs, result>>

\* lines 278-290: the run returns its result
return_result ==
    /\ tpc = "loop"
    /\ file_i > Len(file_list)
    /\ result' = [code |-> 0,
                  file |-> file_md,
                  utc_timestamp |-> utcnow,
                  total_file_count |-> Len(file_list),
                  processed_file_count |-> processed_files,
                  las_file_count |-> las_processed_files,
                  sensor |-> SensorArg]
    /\ tpc' = "returned"
    /\ UNCHANGED <<counter, merge_filename, locals, folder, runs, md_calls, las_calls>>

\* one call file_md = merge_file_md(file_md, prepare_file_md(...)), as at
\* lines 271-272
merge_call(filepath, source_file) ==
    /\ tpc = "idle"
    /\ Len(md_calls) < MaxMerges
    /\ file_md' = merge_file_md(file_md, prepare_file_md(filepath, source_file, SensorArg))
    /\ md_calls' = Append(md_calls, <<filepath, source_file>>)
    /\ UNCHANGED <<counter, tpc, merge_filename, file_list, file_i, processed_files,
                   las_processed_files, folder, runs, las_calls, result>>

\* ----------------------------------------------------------- specification
SensorNames == {"all", "ALL", "envlog", "scanner3D", "nosuch"}
StartDates == DateKeys \cup {strftime(Today + 1)}

InitProcess ==
    /\ SCAN_LOCK = FALSE
    /\ files = NoFiles
    /\ pc = [t \in Threads |-> IF t = Sched THEN "sched" ELSE "idle"]
    /\ sensor_list = [t \in Threads |-> <<>>]
    /\ dates_to_check = [t \in Threads |-> <<>>]
    /\ conn = [t \in Threads |-> IF t = Sched THEN Connection ELSE NoConnection]
    /\ sensor_i = [t \in Threads |-> 0]
    /\ date_i = [t \in Threads |-> 0]
    /\ target_i = [t \in Threads |-> 0]
    /\ df = [t \in Threads |-> NoFrame]
    /\ counts = [t \in Threads |-> Empty]
    /\ percentages = [t \in Threads |-> Empty]
    /\ err = [t \in Threads |-> "none"]
    /\ written = [t \in Threads |-> {}]
    /\ processed = [s \in Sensors |-> [d \in DateKeys |-> 0]]
    /\ message = [t \in Threads |-> NoMessage]
    /\ calls = [t \in Threads |-> <<>>]
    /\ connects = [t \in Threads |-> IF t = Sched THEN connect(0) ELSE 0]
    /\ sweeps = [t \in Threads |-> 0]
    /\ before = [t \in Threads |-> NoFiles]
    /\ wrote = [t \in Threads |-> NoFiles]

Init ==
    /\ InitProcess
    /\ InitTransformer
    /\ arg = NoCall
    /\ ret = NoReturn
    /\ fs = [p \in Paths |-> [d \in DateKeys |-> FlatDir(2, 1)]]
    /\ cwd_dirs = {}
    /\ START_SCAN_DATE \in StartDates
    /\ target_order \in TargetOrders

Sweep(t) ==
    \/ test_lock(t)
    \/ sleep_60(t)
    \/ set_lock(t)
    \/ load_frame(t)
    \/ count_target(t)
    \/ update_row(t)
    \/ write_frame(t)
    \/ release_lock(t)

Next ==
    \/ \E t \in OnDemand, n \in SensorNames, s \in DateKeys, e \in DateKeys \cup {None} :
          schedule_count(t, n, s, e)
    \/ run_regular_update
    \/ sleep_3600
    \/ \E t \in Threads : Sweep(t)

Spec == Init /\ [][Next]_vars

\* no sweep is under way
Quiet == \A t \in Threads : pc[t] \in {"idle", "done", "dead", "sched"}

\* Requests served one after the other, while files arrive in today's
\* directory between two sweeps
InitSeq ==
    /\ InitProcess
    /\ InitTransformer
    /\ arg = NoCall
    /\ ret = NoReturn
    /\ fs = [p \in Paths |-> [d \in DateKeys |->
                IF p = "/data/envlog" /\ d = FirstDate THEN ScenarioDir ELSE Missing]]
    /\ cwd_dirs \in {{}, {Name(1, "")}}
    /\ START_SCAN_DATE = FirstDate
    /\ target_order = [envlog |-> <<"images", "jpgs">>, scanner3D |-> <<"ply", "raw">>]

NextSeq ==
    \/ \E n \in SensorNames, s \in DateKeys, e \in DateKeys \cup {None} :
          Quiet /\ schedule_count(1, n, s, e)
    \/ Sweep(1)
    \/ thread_exit(1)
    \/ \E listing \in Dirs :
          Quiet /\ change_directory("/data/envlog", strftime(Today), listing)

SpecSeq == InitSeq /\ [][NextSeq]_vars

\* A finite set of sweeps none of which raises: the scheduler's sweep and the
\* sweeps of requests, each for one registered sensor, all over today's date;
\* each thread is scheduled again and again; time.sleep(3600) does not end
InitFair ==
    /\ InitProcess
    /\ InitTransformer
    /\ arg = NoCall
    /\ ret = NoReturn
    /\ fs = [p \in Paths |-> [d \in DateKeys |-> FlatDir(2, 1)]]
    /\ cwd_dirs = {}
    /\ START_SCAN_DATE = strftime(Today)
    /\ target_order = [envlog |-> <<"images", "jpgs">>, scanner3D |-> <<"raw", "ply">>]

\* a step of thread t's sweep that raises nothing
SweepReturns(t) == Sweep(t) /\ pc'[t] # "dead"

NextFair ==
    \/ \E t \in OnDemand, n \in {"envlog", "scanner3D"} :
          schedule_count(t, n, strftime(Today), None)
    \/ run_regular_update
    \/ \E t \in Threads : SweepReturns(t)

\* every step of a thread changes its position
position == <<pc, sensor_i, target_i>>

SpecFair ==
    /\ InitFair
    /\ [][NextFair]_vars
    /\ WF_position(run_regular_update)
    /\ \A t \in Threads : WF_position(SweepReturns(t))

\* ------------------------------------------- single calls of retrieve
\* a directory of a timestamp directory and two plain files
MixedDir ==
    Dir(<<DirEntry(1, <<Name(1, "jpg"), Name(2, "txt")>>),
          FileEntry(2, "jpg"), FileEntry(3, "txt")>>)
RetrieveDirs == Dirs \cup {MixedDir}

\* the working directory holds no directory, one named like the timestamp
\* directory, or one named like the plain file 1.jpg
WorkingDirs == {{}, {Name(1, "")}, {Name(1, "jpg")}}

\* the types of lines 188, 194, 200 and 216 and a definition of each type
RetrieveTypes == {"timestamp", "plot", "regex", "psql"}
PsqlQuery == "SELECT COUNT(*) FROM records WHERE day = '%s'"
RetrieveDef(type) ==
    CASE type = "regex" -> [type |-> type, path |-> "/data/envlog", regex |-> JpgRegex]
      [] type = "psql" -> [type |-> type, query |-> PsqlQuery]
      [] OTHER -> [type |-> type, path |-> "/data/envlog"]

\* the rows a cursor yields after curs.execute (lines 219-221)
Cursors == {<<>>, <<<<5>>>>, <<<<5>>, <<7>>>>, <<<<7>>, <<5>>, <<0>>>>}
\* a connection whose cursor yields the rows for every date
ConnectionOf(rows) == [results |-> [i \in 1..NumDays |-> rows]]

InitRetrieve ==
    /\ InitProcess
    /\ InitTransformer
    /\ \E listing \in RetrieveDirs :
          fs = [p \in Paths |-> [d \in DateKeys |->
                  IF p = "/data/envlog" /\ d = FirstDate THEN listing ELSE Missing]]
    /\ cwd_dirs \in WorkingDirs
    /\ START_SCAN_DATE = FirstDate
    /\ target_order = [envlog |-> <<"images", "jpgs">>, scanner3D |-> <<"raw", "ply">>]
    /\ arg \in {[fn |-> "retrive_single_count", type |-> ty, date |-> d, rows |-> c] :
                  ty \in RetrieveTypes, d \in DateKeys, c \in Cursors}
    /\ ret = NoReturn

\* one call retrive_single_count(target_count, target_def, date, conn)
single_retrieve ==
    /\ arg.fn = "retrive_single_count"
    /\ ret = NoReturn
    /\ LET r == retrive_single_count("target", RetrieveDef(arg.type), arg.date,
                                     ConnectionOf(arg.rows))
       IN  ret' = [fn |-> "retrive_single_count", err |-> r.err, count |-> r.count]
    /\ UNCHANGED <<shared, environ, pc, args, loops, df, memo, err, written, history, sessions,
                   calls, arg, merging>>

SpecRetrieve == InitRetrieve /\ [][single_retrieve]_vars

\* ------------------------------- single calls of generate_dates_in_range
\* the days of a month of the calendar
DaysInMonth(y, m) ==
    IF m = 2
    THEN (IF y % 4 = 0 /\ (y % 100 # 0 \/ y % 400 = 0) THEN 29 ELSE 28)
    ELSE IF m \in {4, 6, 9, 11} THEN 30 ELSE 31

\* valid date strings around the ends of months, of a leap February and of a
\* year
ValidDates ==
    {x \in {<<y, m, d>> : y \in {2020, 2021}, m \in {1, 2, 3, 12}, d \in {1, 28, 29, 31}} :
        x[3] <= DaysInMonth(x[1], x[2])}

InitDates ==
    /\ InitProcess
    /\ InitTransformer
    /\ fs = [p \in Paths |-> [d \in DateKeys |-> Missing]]
    /\ cwd_dirs = {}
    /\ START_SCAN_DATE = FirstDate
    /\ target_order = [envlog |-> <<"images", "jpgs">>, scanner3D |-> <<"raw", "ply">>]
    /\ arg \in {[fn |-> "generate_dates_in_range", start |-> a, end |-> b] :
                  a \in ValidDates, b \in ValidDates \cup {None}}
    /\ ret = NoReturn

\* one call generate_dates_in_range(start_date_string, end_date_string)
single_dates ==
    /\ arg.fn = "generate_dates_in_range"
    /\ ret = NoReturn
    /\ ret' = [fn |-> "generate_dates_in_range",
               dates |-> generate_dates_in_range(arg.start, arg.end)]
    /\ UNCHANGED <<shared, environ, pc, args, loops, df, memo, err, written, history, sessions,
                   calls, arg, merging>>

SpecDates == InitDates /\ [][single_dates]_vars

\* ------------------------------------------------ runs of perform_process
\* the file counter does not run
InitCounter ==
    /\ InitProcess
    /\ arg = NoCall
    /\ ret = NoReturn
    /\ fs = [p \in Paths |-> [d \in DateKeys |-> Missing]]
    /\ cwd_dirs = {}
    /\ START_SCAN_DATE = FirstDate
    /\ target_order = [envlog |-> <<"images", "jpgs">>, scanner3D |-> <<"raw", "ply">>]

\* no run of perform_process has begun
InitMerge == InitCounter /\ InitTransformer

\* the lists of names a request can carry
RECURSIVE NameLists(_)
NameLists(n) ==
    IF n = 0 THEN {<<>>}
    ELSE NameLists(n - 1)
         \cup {Append(l, x) : l \in {m \in NameLists(n - 1) : Len(m) = n - 1},
                              x \in SourceNames}

NextTransformer ==
    \/ \E list_files \in NameLists(MaxFiles), merge_name \in MergeFilenames :
          start_process(list_files, merge_name)
    \/ process_file
    \/ return_result

SpecTransformer == InitMerge /\ [][NextTransformer]_vars

\* ------------------------------------------- sequences of merge_file_md
\* the .las files that exist
SourceFiles == {BareA, DataA, DataB}

NextMergeMd ==
    \E filepath \in OutPaths \ {MergedOut(Path("", "c", ".las"), NoName)},
       source_file \in SourceFiles :
          merge_call(filepath, source_file)

SpecMergeMd == InitMerge /\ [][NextMergeMd]_vars

\* ================================================================== claims
\* a thread is between its 'SCAN_LOCK = True' and its 'SCAN_LOCK = False'
InSweep(t) == pc[t] \in {"sensor", "target", "row", "write", "unlock"}
\* thread t takes a step
Steps(t) ==
    \/ pc'[t] # pc[t]
    \/ target_i'[t] # target_i[t]
    \/ sensor_i'[t] # sensor_i[t]
\* the value of the column named c in a row of a frame or file
Cell(table, row, c) == row[IndexOf(table.cols, c)]
\* the rows of a frame or file that carry the date
RowsOf(table, date) == {i \in 1..Len(table.rows) : table.rows[i][1] = date}

\* C1: at most one sweep is between its 'SCAN_LOCK = True' and its
\* 'SCAN_LOCK = False' at any time
C1_OneSweepAtATime ==
    \A t, u \in Threads : (t # u /\ InSweep(t)) => ~InSweep(u)

\* C2: whenever a sweep that set SCAN_LOCK ends, by returning or by raising,
\* SCAN_LOCK is False afterwards
C2_LockFalseAfterSweep ==
    [][\A t \in Threads :
          (InSweep(t) /\ pc'[t] \in {"done", "dead", "sleep3600"})
              => SCAN_LOCK' = FALSE]_vars

\* C3: once every pass that was started has completed without an error, each
\* sensor's file holds exactly one row for every date a pass over the sensor
\* had in its list, and never two rows for one date
C3_OneRowPerDate ==
    (\A t \in Threads : ~InSweep(t) /\ pc[t] # "lock" /\ err[t] = "none") =>
        \A s \in Sensors :
            /\ \A d \in DateKeys :
                  processed[s][d] >= 1 => Cardinality(RowsOf(files[s], d)) = 1
            /\ \A i, j \in 1..Len(files[s].rows) :
                  files[s].rows[i][1] = files[s].rows[j][1] => i = j

\* C4: when the row step finds a row of the date in the frame, every count
\* column and every percent column of that row holds this pass's value after
\* the step
C4_FullOverwrite ==
    [][\A t \in Threads :
          (pc[t] = "row" /\ Steps(t) /\ HasDate(df[t], CurrentDate(t))) =>
             \A i \in RowsOf(df'[t], CurrentDate(t)) :
                \A k \in 1..Len(Order(t)) :
                    LET target_count == Order(t)[k] IN
                    /\ Cell(df'[t], df'[t].rows[i], target_count)
                          = counts[t][target_count]
                    /\ "parent" \in DOMAIN Targets(t)[target_count] =>
                          Cell(df'[t], df'[t].rows[i], PctCol(target_count))
                             = percentages[t][target_count]]_vars

\* the frame's row of the last date was replaced: it differs from the row the
\* file still holds for that date
C4_Witness ==
    \E t \in Threads :
        /\ pc[t] = "write"
        /\ Len(dates_to_check[t]) > 0
        /\ LET d == dates_to_check[t][Len(dates_to_check[t])]
               old == RowsOf(files[Sensor(t)], d)
               new == RowsOf(df[t], d)
           IN  /\ old # {} /\ new # {}
               /\ \A i \in old, j \in new :
                     /\ files[Sensor(t)].rows[i][2] # df[t].rows[j][2]
                     /\ files[Sensor(t)].rows[i][4] # df[t].rows[j][4]

\* C5: every file the sweep writes has its rows in ascending order of date
C5_FilesSorted ==
    \A s \in Sensors :
        \A i \in 1..(Len(files[s].rows) - 1) :
            strptime(files[s].rows[i][1]) < strptime(files[s].rows[i + 1][1])

\* a pass over the first day alone wrote a file that already held a later day:
\* the frame had the new row after the old one
C5_Witness ==
    \E t \in Threads, s \in Sensors :
        /\ s \in written[t]
        /\ dates_to_check[t] = <<FirstDate>>
        /\ processed[s][FirstDate] = 1
        /\ Len(files[s].rows) >= 2
        /\ files[s].rows[1][1] = FirstDate

\* C6: after a failed read or write of one sensor's file the sensors later in
\* the sweep's list are still written
C6_LaterSensorsWritten ==
    \A t \in Threads :
        (pc[t] = "dead" /\ err[t] = "IOError") =>
            \A j \in (sensor_i[t] + 1)..Len(sensor_list[t]) :
                sensor_list[t][j] \in written[t]

\* C7: after a failed count retrieval the sensor at hand and the sensors later
\* in the sweep's list are still written
C7_SweepGoesOn ==
    \A t \in Threads :
        (pc[t] = "dead" /\ err[t] = "OSError") =>
            \A j \in sensor_i[t]..Len(sensor_list[t]) :
                sensor_list[t][j] \in written[t]

\* C8: a target whose parent is not in counts yet gets the parent's count
\* retrieved and stored, and its percentage computed (unless the retrieval
\* itself fails on the file system)
C8_ParentRetrievedOnDemand ==
    [][\A t \in Threads :
          (/\ pc[t] = "target"
           /\ Steps(t)
           /\ err'[t] # "OSError"
           /\ "parent" \in DOMAIN Targets(t)[Order(t)[target_i[t]]]
           /\ Targets(t)[Order(t)[target_i[t]]].parent \notin DOMAIN counts[t])
          => /\ Targets(t)[Order(t)[target_i[t]]].parent \in DOMAIN counts'[t]
             /\ Order(t)[target_i[t]] \in DOMAIN percentages'[t]]_vars

\* the float x is child / parent, or 0.0 when parent is 0
IsRatio(x, child, parent) ==
    IF parent = 0 THEN x = FloatZero
    ELSE x[2] > 0 /\ x[1] * parent = child * x[2]

\* C9: every percentage stored, in a sweep's percentages and in a file's rows,
\* is 0.0 when the parent's count is 0 and child / parent otherwise
C9_Percentage ==
    /\ \A t \in Threads :
          pc[t] \in {"target", "row", "write"} =>
          \A target_count \in DOMAIN percentages[t] :
              IsRatio(percentages[t][target_count], counts[t][target_count],
                      counts[t][Targets(t)[target_count].parent])
    /\ \A s \in Sensors :
          \A i \in 1..Len(files[s].rows) :
              \A k \in 1..Len(target_order[s]) :
                  LET target_count == target_order[s][k]
                      target_def == count_defs[s][target_count]
                      row == files[s].rows[i]
                  IN  "parent" \in DOMAIN target_def =>
                         IsRatio(Cell(files[s], row, PctCol(target_count)),
                                 Cell(files[s], row, target_count),
                                 Cell(files[s], row, target_def.parent))

\* a file holds a row whose parent count is 0 and a row whose parent count is
\* not 0 and whose child count is neither 0 nor the parent count
C9_Witness ==
    \E s \in Sensors :
        \E i, j \in 1..Len(files[s].rows) :
            /\ files[s].rows[i][2] = 0
            /\ files[s].rows[i][4] = FloatZero
            /\ files[s].rows[j][2] > 0
            /\ files[s].rows[j][3] > 0
            /\ files[s].rows[j][3] # files[s].rows[j][2]
            /\ files[s].rows[j][4] # FloatZero

\* the entries of a listing whose name ends in .jpg
JpgEntries(listing) ==
    {i \in 1..Len(listing.entries) : listing.entries[i].name.ext = "jpg"}
\* every entry of the listing is a plain file
IsFlat(listing) ==
    listing.exists /\ \A i \in 1..Len(listing.entries) : ~listing.entries[i].isdir

\* C10: for sensor envlog (listing target images, regex target jpgs with
\* parent images) the row of a date whose directory holds n files of which m
\* match is <<date, n, m, m/n>>, <<date, 10, 4, 0.4>> in the scenario, and the
\* row of a date whose directory is missing is <<date, 0, 0, 0.0>>
C10_ScenarioRow ==
    \A t \in Threads :
        (pc[t] \in {"sensor", "unlock"} /\ "envlog" \in written[t]) =>
            \A k \in 1..Len(dates_to_check[t]) :
                LET d == dates_to_check[t][k]
                    listing == fs["/data/envlog"][d]
                    n == Len(listing.entries)
                    m == Cardinality(JpgEntries(listing))
                IN  \A i \in RowsOf(files.envlog, d) :
                       LET row == files.envlog.rows[i] IN
                       /\ listing = ScenarioDir => row = <<d, 10, 4, <<2, 5>>>>
                       /\ ~listing.exists => row = <<d, 0, 0, <<0, 1>>>>
                       /\ IsFlat(listing) =>
                             /\ Len(row) = 4
                             /\ row[2] = n
                             /\ row[3] = m
                             /\ IsRatio(row[4], m, n)

\* a sweep wrote the scenario's two rows: 10 entries with 4 matches on the
\* first day and a missing directory on the last
C10_Witness ==
    \E t \in Threads :
        /\ pc[t] = "unlock"
        /\ "envlog" \in written[t]
        /\ dates_to_check[t] = <<FirstDate, strftime(Today)>>
        /\ fs["/data/envlog"][FirstDate] = ScenarioDir
        /\ ~fs["/data/envlog"][strftime(Today)].exists
        /\ files.envlog.rows =
              <<(<<FirstDate, 10, 4, <<2, 5>>>>), (<<strftime(Today), 0, 0, <<0, 1>>>>)>>

\* the single call of retrive_single_count has returned or raised
Retrieved == ret.fn = "retrive_single_count"
\* the directory path/date of the single call
RetrieveDir == Listing("/data/envlog", arg.date)

\* C11: a call for a listing type or the regex type whose directory path/date
\* does not exist returns 0 and raises nothing
C11_MissingDirIsZero ==
    (/\ Retrieved
     /\ arg.type \in {"timestamp", "plot", "regex"}
     /\ ~RetrieveDir.exists)
    => (ret.err = "none" /\ ret.count = 0)

\* a regex call on a missing directory returned, with a directory in the
\* working directory
C11_Witness ==
    /\ Retrieved
    /\ arg.type = "regex"
    /\ ~RetrieveDir.exists
    /\ cwd_dirs # {}
    /\ ret.count = 0

\* C12: a call for a query type returns the first column of the first row of
\* the result, and 0 when the result has no row
C12_FirstRow ==
    (Retrieved /\ arg.type = "psql") =>
        /\ ret.err = "none"
        /\ ret.count = (IF arg.rows = <<>> THEN 0 ELSE arg.rows[1][1])

\* the count the claim gives a directory's entries: the matching files of each
\* entry that is a directory, and each matching entry that is a file
MatchingIn(e) ==
    IF e.isdir
    THEN Cardinality({k \in 1..Len(e.files) : re_match(JpgRegex, e.files[k])})
    ELSE (IF re_match(JpgRegex, e.name) THEN 1 ELSE 0)
RECURSIVE SumMatching(_)
SumMatching(entries) ==
    IF entries = <<>> THEN 0
    ELSE MatchingIn(Head(entries)) + SumMatching(Tail(entries))

\* C19: a call for the regex type returns the sum, over the entries of
\* path/date, of the matching files of the directories and of the matching
\* plain files, whatever the working directory holds
C19_RegexCount ==
    (Retrieved /\ arg.type = "regex" /\ RetrieveDir.exists) =>
        /\ ret.err = "none"
        /\ ret.count = SumMatching(RetrieveDir.entries)

\* the single call of generate_dates_in_range has returned, for an end date
\* that was given
Generated == ret.fn = "generate_dates_in_range" /\ arg.end # None
\* date string a is earlier in the calendar than date string b
Earlier(a, b) ==
    \/ a[1] < b[1]
    \/ a[1] = b[1] /\ a[2] < b[2]
    \/ a[1] = b[1] /\ a[2] = b[2] /\ a[3] < b[3]
\* the calendar day after date string a
NextDay(a) ==
    IF a[3] < DaysInMonth(a[1], a[2]) THEN <<a[1], a[2], a[3] + 1>>
    ELSE IF a[2] < 12 THEN <<a[1], a[2] + 1, 1>>
    ELSE <<a[1] + 1, 1, 1>>

\* C13: for start <= end the list has (end - start).days + 1 date strings,
\* begins with start, ends with end, and each is the calendar day after the
\* one before it
C13_RangeInclusive ==
    (Generated /\ ~Earlier(arg.end, arg.start)) =>
        /\ Len(ret.dates) = strptime(arg.end) - strptime(arg.start) + 1
        /\ ret.dates[1] = arg.start
        /\ ret.dates[Len(ret.dates)] = arg.end
        /\ \A i \in 1..(Len(ret.dates) - 1) : ret.dates[i + 1] = NextDay(ret.dates[i])

\* a range over the leap day and a range over the end of the year were
\* generated
C13_Witness ==
    /\ Generated
    /\ \/ /\ arg.start = <<2020, 2, 28>> /\ arg.end = <<2020, 3, 1>>
          /\ ret.dates = <<(<<2020, 2, 28>>), (<<2020, 2, 29>>), (<<2020, 3, 1>>)>>
       \/ /\ arg.start = <<2020, 12, 31>> /\ arg.end = <<2021, 1, 1>>
          /\ ret.dates = <<(<<2020, 12, 31>>), (<<2021, 1, 1>>)>>

\* C14: for end earlier than start the list is empty
C14_EmptyWhenReversed ==
    (Generated /\ Earlier(arg.end, arg.start)) => ret.dates = <<>>

\* a call with end one day, and a call with end a year, before start returned
\* the empty list
C14_Witness ==
    /\ Generated
    /\ \/ arg.start = <<2020, 3, 1>> /\ arg.end = <<2020, 2, 29>>
       \/ arg.start = <<2021, 3, 1>> /\ arg.end = <<2020, 3, 1>>
    /\ ret.dates = <<>>

\* C15: the scheduler thread never stops
C15_SchedulerNeverStops == pc[Sched] # "dead"

\* C16: once schedule_count has started a thread its caller has the
\* acknowledgement, the number of sensors and the number of dates, whether the
\* thread waits for SCAN_LOCK, sweeps, has returned or has raised
C16_Acknowledged ==
    \A t \in OnDemand :
        pc[t] # "idle" =>
            message[t] = <<Len(sensor_list[t]), Len(dates_to_check[t])>>

\* the request for all sensors and one date was acknowledged while the
\* scheduler's sweep holds SCAN_LOCK and the request's sweep sleeps
C16_Witness ==
    \E t \in OnDemand :
        /\ InSweep(Sched)
        /\ SCAN_LOCK
        /\ pc[t] = "sleep60"
        /\ message[t] = <<2, 1>>

\* the calls of thread t's sweep that returned the count of the target for
\* the sensor and date the thread is at
CallsHere(t, target_count) ==
    {i \in 1..Len(calls[t]) :
        /\ calls[t][i].sensor = Sensor(t)
        /\ calls[t][i].date = CurrentDate(t)
        /\ calls[t][i].target = target_count}

\* C18: the memo is empty when the first target of a date is reached; every
\* count in the memo was retrieved by exactly one call of this sweep for the
\* sensor and date at hand; every percentage has its parent's count in the
\* memo
C18_MemoPerDate ==
    \A t \in Threads :
        pc[t] \in {"target", "row"} =>
            /\ (pc[t] = "target" /\ target_i[t] = 1) =>
                  (counts[t] = Empty /\ percentages[t] = Empty)
            /\ \A target_count \in DOMAIN counts[t] :
                  /\ Cardinality(CallsHere(t, target_count)) = 1
                  /\ \A i \in CallsHere(t, target_count) :
                        calls[t][i].count = counts[t][target_count]
            /\ \A target_count \in DOMAIN percentages[t] :
                  /\ target_count \in DOMAIN counts[t]
                  /\ Targets(t)[target_count].parent \in DOMAIN counts[t]

\* at the second date of a sweep the parent's count in the memo differs from
\* the one retrieved for the first date, and a percentage was derived from it
C18_Witness ==
    \E t \in Threads :
        /\ pc[t] = "row"
        /\ date_i[t] = 2
        /\ "jpgs" \in DOMAIN percentages[t]
        /\ \E i \in 1..Len(calls[t]) :
              /\ calls[t][i].date = dates_to_check[t][1]
              /\ calls[t][i].target = "images"
              /\ calls[t][i].count # counts[t]["images"]

\* thread t is inside a call of update_file_count_csvs
Sweeping(t) == pc[t] \in {"wait", "sleep60", "lock"} \/ InSweep(t)

\* C20: whenever a sweep is started, as many connections have been made for
\* its thread as the thread has started sweeps
C20_ConnectionPerSweep ==
    [][\A t \in Threads :
          (pc[t] \in {"idle", "sched"} /\ pc'[t] = "wait") =>
              connects'[t] = sweeps'[t]]_vars

\* C20 as amended: one connection is made for each on-demand sweep, the
\* scheduler makes one connection for all its sweeps, and none is made
\* inside a sweep
C20_ConnectionPerRequest ==
    /\ [](/\ connects[Sched] = 1
          /\ \A t \in OnDemand : connects[t] = sweeps[t])
    /\ [][\A t \in Threads : Sweeping(t) => connects'[t] = connects[t]]_vars

\* the scheduler is in its second sweep with its one connection while an
\* on-demand sweep has its own
C20_Witness ==
    /\ sweeps[Sched] = 2
    /\ connects[Sched] = 1
    /\ Sweeping(Sched)
    /\ \E t \in OnDemand : Sweeping(t) /\ sweeps[t] = 1 /\ connects[t] = 1

\* every thread has returned from its sweep or was never started
Finished == \A t \in Threads : pc[t] \in {"idle", "done", "sleep3600"}

\* C17: from some time on every sweep that was started has got past the flag
\* and returned, and SCAN_LOCK is False; a sweep that finds the flag held
\* sleeps and then tests it again
C17_SweepsComplete ==
    /\ <>[](Finished /\ ~SCAN_LOCK)
    /\ [][\A t \in Threads :
            /\ (pc[t] = "wait" /\ SCAN_LOCK /\ pc'[t] # pc[t]) => pc'[t] = "sleep60"
            /\ (pc[t] = "sleep60" /\ pc'[t] # pc[t]) => pc'[t] = "wait"]_vars
    /\ [](Finished => ~SCAN_LOCK)

\* the scheduler's sweep and a request's sweep over the same sensor and date
\* have both returned, and SCAN_LOCK is False
C17_Witness ==
    /\ pc[Sched] = "sleep3600"
    /\ \E t \in OnDemand : pc[t] = "done" /\ "envlog" \in written[t]
    /\ \E d \in DateKeys : processed["envlog"][d] = 2
    /\ ~SCAN_LOCK

\* the date string is in the list of dates
InDates(dates, d) == \E k \in 1..Len(dates) : dates[k] = d
\* the table holds the row
HasRow(table, row) == \E j \in 1..Len(table.rows) : table.rows[j] = row

\* C21: when a sweep has raised at sensor B after it wrote the file of sensor
\* A, A's file holds every row the sweep computed for its dates and wrote, and
\* B's file is as it was when the sweep began
C21_NoRollback ==
    \A t \in Threads :
        (pc[t] = "dead" /\ sensor_i[t] >= 1 /\ written[t] # {}) =>
            /\ \A s \in written[t] :
                  \A i \in 1..Len(wrote[t][s].rows) :
                      InDates(dates_to_check[t], wrote[t][s].rows[i][1]) =>
                          HasRow(files[s], wrote[t][s].rows[i])
            /\ Sensor(t) \in Sensors =>
                  files[Sensor(t)] = before[t][Sensor(t)]

\* C24: a step of a sweep changes the file of no sensor that is not in the
\* sweep's list, and a file it changes keeps, with the same values, every row
\* whose date is not in the sweep's dates; a sweep writes the files of sensors
\* of its list only
C24_NothingElseChanges ==
    /\ [][\A t \in Threads :
            Steps(t) =>
                \A s \in Sensors :
                    files'[s] # files[s] =>
                        /\ \E k \in 1..Len(sensor_list[t]) : sensor_list[t][k] = s
                        /\ \A i \in 1..Len(files[s].rows) :
                              ~InDates(dates_to_check[t], files[s].rows[i][1]) =>
                                  HasRow(files'[s], files[s].rows[i])]_vars
    /\ [](\A t \in Threads :
            \A s \in written[t] : \E k \in 1..Len(sensor_list[t]) : sensor_list[t][k] = s)

\* C22: a file that a run merged into a merged output, and recorded in its
\* contents file, is not merged into that output again by a later run
C22_MergedOnce ==
    \A i, j \in 1..Len(las_calls) :
        (las_calls[i].file = las_calls[j].file /\ las_calls[i].out = las_calls[j].out)
            => las_calls[i].run = las_calls[j].run

\* the source files of the calls for the path, in the order of the calls
RECURSIVE SourcesOf(_, _)
SourcesOf(merge_calls, path) ==
    IF merge_calls = <<>> THEN <<>>
    ELSE (IF Head(merge_calls)[1] = path THEN <<Head(merge_calls)[2]>> ELSE <<>>)
         \o SourcesOf(Tail(merge_calls), path)

\* C23: no two entries of the list have the same path, every path merged has
\* an entry, and the source list of an entry names the source files of the
\* calls for its path, all of them and in the order of the calls
C23_OneEntryPerPath ==
    /\ \A i, j \in 1..Len(file_md) : file_md[i].path = file_md[j].path => i = j
    /\ \A k \in 1..Len(md_calls) :
          \E i \in 1..Len(file_md) : file_md[i].path = md_calls[k][1]
    /\ \A i \in 1..Len(file_md) :
          file_md[i].metadata.data.source = List(SourcesOf(md_calls, file_md[i].path))

\* a path was merged three times, from b.las, then a.las, then b.las again,
\* with a merge of another path in between
C23_Witness ==
    /\ Len(md_calls) = 4
    /\ Len(file_md) = 2
    /\ \E i \in 1..2 :
          file_md[i].metadata.data.source = List(<<DataB, DataA, DataB>>)
    /\ md_calls[2][1] # md_calls[1][1]
====
